---- MODULE Spec2Model ----
(***************************************************************************)
(* Managed-position lifecycle engine (services/position_manager.go) with  *)
(* its store (database.LocalStorage) and the broker it talks to.          *)
(*                                                                         *)
(* A handler of the engine (PlaceManagedPosition, the body of the         *)
(* checkPositions loop for one position, CloseManagedPosition) is a       *)
(* function from the world it finds (the position record, the broker's    *)
(* order book, the table) and the outcomes of the calls it makes (which   *)
(* broker calls and store writes succeed, which quote is read) to the     *)
(* world it leaves.  An action runs one handler to its end; the turn of   *)
(* the monitor that waits in checkEntryOrder is the one place where the   *)
(* model lets the other goroutines in between (no lock covers a record).  *)
(*                                                                         *)
(* Every call of a handler can fail, a failed call changes neither the    *)
(* broker nor the store, and a restart forgets the memory: a process      *)
(* killed inside a handler therefore leaves what the handler leaves when  *)
(* all its later calls fail and the process is killed after it.  Restart  *)
(* after any handler, with every combination of outcomes, covers the kill *)
(* at every point of every handler.                                       *)
(*                                                                         *)
(* Prices are integers (cents), quantities are hundredths of a share, so  *)
(* that the percentages of the model are computed exactly.  Order id 0 is *)
(* the empty string.  ClosedAt is whether the pointer is set.              *)
(***************************************************************************)
EXTENDS Integers, Sequences, FiniteSets, TLC

\* ------------------------------------------------------------- bounds
MaxOrders == 3
MaxCrashes == 1

\* ------------------------------------------------------------- inputs
PositionIDs == {"pos_1"}
\* The quotes GetLatestQuote returns while a position is managed.
Marks == {10000, 12000}
\* The prices the broker fills a market order at.
MarketFills == {10100}
\* The requests: the side and the quote the request is planned at.
Openings == {[Side |-> "buy", quote |-> 10000], [Side |-> "sell", quote |-> 12000]}
AllocationDollars == 100000
StopLossPercent == 10
TakeProfitPercent == 20
TrailingPercent == 10
PartialExitPercent == 50
PartialExitTargetPercent == 10
Share == 100
\* An allocation that does not buy one share, and a partial exit of more than
\* the whole position.
SmallAllocationDollars == 5000
OversizedPartialExitPercent == 150
\* A stop-loss price given in the request, above every quote.
GivenStopLossPrice == 13000

VARIABLES
    positions,  \* pm.positions: position id -> ManagedPosition
    db,         \* managed_positions table: position id -> DBManagedPosition
    orders,     \* the broker's orders; the index is the order id
    crashes,    \* number of restarts so far
    inflight,   \* the position whose turn of the checkPositions loop waits in
                \* checkEntryOrder, GetOrder having reported the entry order
                \* filled; <<>> when no turn waits
    monitor     \* the goroutine of MonitorPositions: "running", "cancelled"
                \* (its context is cancelled and it has not looked yet) or
                \* "returned"

vars == <<positions, db, orders, crashes, inflight, monitor>>

EmptyMap == [p \in {} |-> 0]

\* ------------------------------------------------------------- broker
LiveStatuses == {"accepted", "partially_filled"}

IsLive(o) == o.status \in LiveStatuses

exitSide(side) == IF side = "sell" THEN "buy" ELSE "sell"

\* interfaces.Order as the engine fills it in; role names the call site.
Order(p, role, side, type, tif, qty, price) ==
    [pos |-> p, role |-> role, side |-> side, type |-> type, tif |-> tif,
     qty |-> qty, price |-> price, status |-> "accepted", avg |-> 0]

\* TradingService.PlaceOrder: ok is whether the broker accepts the order.
Accepts(w, ok) == ok /\ Len(w.orders) < MaxOrders

\* TradingService.GetOrder succeeded and reports the order filled.
ReportsFilled(w, id, ok) ==
    ok /\ id \in 1..Len(w.orders) /\ w.orders[id].status = "filled"

\* TradingService.CancelOrder: it fails on a transient error (ok false) and
\* on an order that is no longer open; its error is ignored by every caller.
CancelOrder(w, id, ok) ==
    IF ok /\ id \in 1..Len(w.orders) /\ IsLive(w.orders[id])
        THEN [w EXCEPT !.orders[id].status = "canceled"]
        ELSE w

\* ------------------------------------------------------------- risk calculator
calculateQuantity(allocation, price) == (allocation \div price) * Share

\* A pointer of the request is a sequence: <<>> is nil, <<v>> points to v.
calculateStopLoss(entryPrice, stopPrice, stopPercent, side) ==
    IF stopPrice # <<>> THEN stopPrice[1]
    ELSE IF side = "buy" THEN (entryPrice * (100 - stopPercent[1])) \div 100
                         ELSE (entryPrice * (100 + stopPercent[1])) \div 100

calculateTakeProfit(entryPrice, profitPrice, profitPercent, side) ==
    IF profitPrice # <<>> THEN profitPrice[1]
    ELSE IF side = "buy" THEN (entryPrice * (100 + profitPercent[1])) \div 100
                         ELSE (entryPrice * (100 - profitPercent[1])) \div 100

calculatePartialExitPrice(entryPrice, pct, side) ==
    IF side = "buy" THEN (entryPrice * (100 + pct)) \div 100
                    ELSE (entryPrice * (100 - pct)) \div 100

\* ------------------------------------------------------------- store
\* json.Marshal of the order id slice and json.Unmarshal of the column.
\* The column is a sequence: <<>> is the empty string, <<"null">> the text of
\* a nil slice, <<"array", ids>> the text of a JSON array.
MarshalIDs(ids) == IF ids = <<>> THEN <<"null">> ELSE <<"array", ids>>

UnmarshalIDs(col) == IF col = <<>> THEN <<>>
                     ELSE IF col[1] = "null" THEN <<>> ELSE col[2]

managedPositionToDB(pos) ==
    [PositionID |-> pos.ID, Side |-> pos.Side, Quantity |-> pos.Quantity,
     EntryPrice |-> pos.EntryPrice, EntryOrderID |-> pos.EntryOrderID,
     StopLossPrice |-> pos.StopLossPrice, StopLossOrderID |-> pos.StopLossOrderID,
     TrailingStop |-> pos.TrailingStop, TrailingPercent |-> pos.TrailingPercent,
     TakeProfitPrice |-> pos.TakeProfitPrice,
     TakeProfitOrderID |-> pos.TakeProfitOrderID,
     PartialExitEnabled |-> pos.PartialExit,
     PartialExitPercent |-> pos.PartialExitPercent,
     PartialExitTargetPrice |-> pos.PartialExitTargetPrice,
     PartialExitOrders |-> MarshalIDs(pos.PartialExitOrders),
     Status |-> pos.Status, CurrentPrice |-> pos.CurrentPrice,
     RemainingQty |-> pos.RemainingQty, ClosedAt |-> pos.ClosedAt]

dbToManagedPosition(row) ==
    [ID |-> row.PositionID, Side |-> row.Side, Quantity |-> row.Quantity,
     EntryPrice |-> row.EntryPrice, EntryOrderID |-> row.EntryOrderID,
     StopLossPrice |-> row.StopLossPrice, StopLossOrderID |-> row.StopLossOrderID,
     TrailingStop |-> row.TrailingStop, TrailingPercent |-> row.TrailingPercent,
     TakeProfitPrice |-> row.TakeProfitPrice,
     TakeProfitOrderID |-> row.TakeProfitOrderID,
     PartialExit |-> row.PartialExitEnabled,
     PartialExitPercent |-> row.PartialExitPercent,
     PartialExitTargetPrice |-> row.PartialExitTargetPrice,
     PartialExitOrders |-> UnmarshalIDs(row.PartialExitOrders),
     Status |-> row.Status, CurrentPrice |-> row.CurrentPrice,
     RemainingQty |-> row.RemainingQty, ClosedAt |-> row.ClosedAt]

\* LocalStorage.SaveManagedPosition: gorm's Save of a row whose primary key
\* (gorm.Model.ID) is zero, which managedPositionToDB never sets, is an INSERT;
\* the unique index on PositionID refuses it when the id is already stored.
\* ok is whether the write itself goes through.
SaveManagedPosition(table, row, ok) ==
    IF ok /\ row.PositionID \notin DOMAIN table
        THEN table @@ (row.PositionID :> row)
        ELSE table

\* savePositionToDB; no caller but PlaceManagedPosition looks at its error,
\* and that one only logs it.
savePositionToDB(w, ok) ==
    [w EXCEPT !.db = SaveManagedPosition(w.db, managedPositionToDB(w.pos), ok)]

\* ------------------------------------------------------------- Init
Init ==
    /\ positions = EmptyMap
    /\ db = EmptyMap
    /\ orders = <<>>
    /\ crashes = 0
    /\ inflight = <<>>
    /\ monitor = "running"

\* ------------------------------------------------------------- placement of orders
\* placeEntryOrder (238-268).
placeEntryOrder(w, ok) ==
    IF Accepts(w, ok)
        THEN [w EXCEPT
                !.orders = Append(@, Order(w.pos.ID, "entry", w.pos.Side, "market",
                                           "gtc", w.pos.Quantity, 0)),
                !.pos.EntryOrderID = Len(w.orders) + 1,
                !.pos.Status = "PENDING"]
        ELSE w

\* placeStopLossOrder (374-404): on an error nothing changes.
placeStopLossOrder(w, ok) ==
    IF Accepts(w, ok)
        THEN [w EXCEPT
                !.orders = Append(@, Order(w.pos.ID, "stop", exitSide(w.pos.Side),
                                           "stop", "gtc", w.pos.RemainingQty,
                                           w.pos.StopLossPrice)),
                !.pos.StopLossOrderID = Len(w.orders) + 1]
        ELSE w

\* placeTakeProfitOrder (407-437).
placeTakeProfitOrder(w, ok) ==
    IF Accepts(w, ok)
        THEN [w EXCEPT
                !.orders = Append(@, Order(w.pos.ID, "take_profit",
                                           exitSide(w.pos.Side), "limit", "gtc",
                                           w.pos.RemainingQty, w.pos.TakeProfitPrice)),
                !.pos.TakeProfitOrderID = Len(w.orders) + 1]
        ELSE w

\* placePartialExitOrder (440-473).
partialQty(pos) == (pos.Quantity * pos.PartialExitPercent) \div 100

placePartialExitOrder(w, ok) ==
    IF Accepts(w, ok)
        THEN [w EXCEPT
                !.orders = Append(@, Order(w.pos.ID, "partial_exit",
                                           exitSide(w.pos.Side), "limit", "gtc",
                                           partialQty(w.pos),
                                           w.pos.PartialExitTargetPrice)),
                !.pos.PartialExitOrders = Append(@, Len(w.orders) + 1)]
        ELSE w

\* A variant of placeRiskOrders that submits the partial exit first, then
\* the stop and the take-profit.
placeRiskOrdersPartialFirst(w, r) ==
    LET w1 == IF w.pos.PartialExit THEN placePartialExitOrder(w, r.placePartial)
                                   ELSE w
        w2 == placeStopLossOrder(w1, r.placeStop)
    IN  placeTakeProfitOrder(w2, r.placeTakeProfit)

\* placeRiskOrders (354-371): stop, take-profit, then the partial exit when
\* it is configured; an error of one does not stop the next.
placeRiskOrders(w, r) ==
    LET w1 == placeStopLossOrder(w, r.placeStop)
        w2 == placeTakeProfitOrder(w1, r.placeTakeProfit)
    IN  IF w2.pos.PartialExit THEN placePartialExitOrder(w2, r.placePartial)
                              ELSE w2

\* ------------------------------------------------------------- the monitor
\* A variant of checkEntryOrder that takes a partly filled entry order for a
\* partial exit and marks the record PARTIAL.
checkEntryOrderMarksPartial(w, r) ==
    IF ReportsFilled(w, w.pos.EntryOrderID, w.pos.EntryOrderID \in r.got)
        THEN LET active == [w EXCEPT
                              !.pos.Status = "ACTIVE",
                              !.pos.EntryPrice = w.orders[w.pos.EntryOrderID].avg]
             IN  savePositionToDB(placeRiskOrders(active, r), r.save)
    ELSE IF w.orders[w.pos.EntryOrderID].status = "partially_filled"
        THEN savePositionToDB([w EXCEPT !.pos.Status = "PARTIAL"], r.save)
        ELSE w

\* A variant of checkEntryOrder that takes a partly filled entry order for a
\* filled one.
checkEntryOrderAcceptsPartialFill(w, r) ==
    IF \/ ReportsFilled(w, w.pos.EntryOrderID, w.pos.EntryOrderID \in r.got)
       \/ w.orders[w.pos.EntryOrderID].status = "partially_filled"
        THEN LET active == [w EXCEPT
                              !.pos.Status = "ACTIVE",
                              !.pos.EntryPrice = w.orders[w.pos.EntryOrderID].avg]
             IN  savePositionToDB(placeRiskOrders(active, r), r.save)
        ELSE w

\* checkEntryOrder (327-351): GetOrder fails, or reports an order that is not
\* filled, or reports it filled.
checkEntryOrder(w, r) ==
    IF ReportsFilled(w, w.pos.EntryOrderID, w.pos.EntryOrderID \in r.got)
        THEN LET active == [w EXCEPT
                              !.pos.Status = "ACTIVE",
                              !.pos.EntryPrice = w.orders[w.pos.EntryOrderID].avg]
             IN  savePositionToDB(placeRiskOrders(active, r), r.save)
        ELSE w

\* manageRiskOrders, the loop over the partial-exit orders (504-516); ids is
\* what is left of the slice the loop ranges over.
RECURSIVE pollPartialExits(_, _, _)
pollPartialExits(w, ids, r) ==
    IF ids = <<>> THEN w
    ELSE LET id == Head(ids)
             w1 == IF ReportsFilled(w, id, id \in r.got)
                     THEN savePositionToDB(
                            [w EXCEPT !.pos.Status = "PARTIAL",
                                      !.pos.RemainingQty = @ - w.orders[id].qty],
                            id \in r.savePartial)
                     ELSE w
         IN  pollPartialExits(w1, Tail(ids), r)

\* A variant of manageRiskOrders that polls the take-profit order before the
\* stop-loss order.
manageRiskOrdersTakeProfitFirst(w, r) ==
    IF /\ w.pos.TakeProfitOrderID # 0
       /\ ReportsFilled(w, w.pos.TakeProfitOrderID,
                        w.pos.TakeProfitOrderID \in r.got)
        THEN savePositionToDB([w EXCEPT !.pos.Status = "CLOSED",
                                    !.pos.ClosedAt = TRUE], r.save)
    ELSE IF /\ w.pos.StopLossOrderID # 0
            /\ ReportsFilled(w, w.pos.StopLossOrderID, w.pos.StopLossOrderID \in r.got)
        THEN savePositionToDB([w EXCEPT !.pos.Status = "STOPPED_OUT",
                                    !.pos.ClosedAt = TRUE], r.save)
    ELSE pollPartialExits(w, w.pos.PartialExitOrders, r)

\* A variant of manageRiskOrders that takes a failed GetOrder of the stop-loss
\* order for the order being gone, and the position for stopped out.
manageRiskOrdersErrorIsFill(w, r) ==
    IF /\ w.pos.StopLossOrderID # 0
       /\ \/ w.pos.StopLossOrderID \notin r.got
          \/ ReportsFilled(w, w.pos.StopLossOrderID, TRUE)
        THEN savePositionToDB([w EXCEPT !.pos.Status = "STOPPED_OUT",
                                    !.pos.ClosedAt = TRUE], r.save)
    ELSE IF /\ w.pos.TakeProfitOrderID # 0
            /\ ReportsFilled(w, w.pos.TakeProfitOrderID,
                             w.pos.TakeProfitOrderID \in r.got)
        THEN savePositionToDB([w EXCEPT !.pos.Status = "CLOSED",
                                    !.pos.ClosedAt = TRUE], r.save)
    ELSE pollPartialExits(w, w.pos.PartialExitOrders, r)

\* manageRiskOrders (476-517): the stop-loss poll, then the take-profit poll,
\* each returning on a fill, then the partial-exit orders.
manageRiskOrders(w, r) ==
    IF /\ w.pos.StopLossOrderID # 0
       /\ ReportsFilled(w, w.pos.StopLossOrderID, w.pos.StopLossOrderID \in r.got)
        THEN savePositionToDB([w EXCEPT !.pos.Status = "STOPPED_OUT",
                                    !.pos.ClosedAt = TRUE], r.save)
    ELSE IF /\ w.pos.TakeProfitOrderID # 0
            /\ ReportsFilled(w, w.pos.TakeProfitOrderID,
                             w.pos.TakeProfitOrderID \in r.got)
        THEN savePositionToDB([w EXCEPT !.pos.Status = "CLOSED",
                                    !.pos.ClosedAt = TRUE], r.save)
    ELSE pollPartialExits(w, w.pos.PartialExitOrders, r)

\* updateTrailingStop (520-556): the candidate stop, whether it is adopted,
\* the cancel of the old order and the placement of the new one.
newStopPrice(pos) ==
    IF pos.Side = "buy" THEN (pos.CurrentPrice * (100 - pos.TrailingPercent)) \div 100
                        ELSE (pos.CurrentPrice * (100 + pos.TrailingPercent)) \div 100

\* A variant of Better that adopts every candidate stop that differs from the
\* current one: a trailing stop that follows the price both ways.
BetterAnyChange(pos) == newStopPrice(pos) # pos.StopLossPrice

Better(pos) ==
    IF pos.Side = "buy" THEN newStopPrice(pos) > pos.StopLossPrice
                        ELSE newStopPrice(pos) < pos.StopLossPrice

updateTrailingStop(w, r) ==
    IF Better(w.pos)
        THEN LET w1 == IF w.pos.StopLossOrderID # 0
                         THEN CancelOrder(w, w.pos.StopLossOrderID, r.cancel)
                         ELSE w
                 w2 == [w1 EXCEPT !.pos.StopLossPrice = newStopPrice(w.pos)]
             IN  placeStopLossOrder(w2, r.placeStop)
        ELSE w

\* updatePositionPrice (559-578); the profit and loss fields are not modelled.
updatePositionPrice(w, r) == [w EXCEPT !.pos.CurrentPrice = r.quote]

\* A variant of checkPosition that polls the risk orders of a Partial
\* position as it polls those of an Active one.
checkPositionPollsPartial(w, r) ==
    IF w.pos.Status \in {"CLOSED", "STOPPED_OUT"} THEN w
    ELSE IF w.pos.Status = "PENDING" THEN checkEntryOrder(w, r)
    ELSE IF r.quote = 0 THEN w
    ELSE LET w1 == updatePositionPrice(w, r)
             w2 == IF w1.pos.Status \in {"ACTIVE", "PARTIAL"}
                     THEN manageRiskOrders(w1, r) ELSE w1
         IN  IF w2.pos.TrailingStop THEN updateTrailingStop(w2, r) ELSE w2

\* The body of the loop of checkPositions (297-323) for one position; a
\* quote of 0 is a failing GetLatestQuote.
checkPosition(w, r) ==
    IF w.pos.Status \in {"CLOSED", "STOPPED_OUT"} THEN w
    ELSE IF w.pos.Status = "PENDING" THEN checkEntryOrder(w, r)
    ELSE IF r.quote = 0 THEN w
    ELSE LET w1 == updatePositionPrice(w, r)
             w2 == IF w1.pos.Status = "ACTIVE" THEN manageRiskOrders(w1, r) ELSE w1
         IN  IF w2.pos.TrailingStop THEN updateTrailingStop(w2, r) ELSE w2

\* ------------------------------------------------------------- CloseManagedPosition
RECURSIVE cancelAll(_, _, _)
cancelAll(w, ids, r) ==
    IF ids = <<>> THEN w
    ELSE cancelAll(CancelOrder(w, Head(ids), Head(ids) \in r.cancels), Tail(ids), r)

\* The status a close leaves (line 699).
closedStatus(pos) == "CLOSED"

\* A variant of CloseManagedPosition that returns the error of the exit
\* order to its caller before it marks the record.
CloseManagedPositionReturnsExitError(w, r) ==
    LET w1 == IF w.pos.EntryOrderID # 0
                THEN CancelOrder(w, w.pos.EntryOrderID, w.pos.EntryOrderID \in r.cancels)
                ELSE w
        w2 == IF w1.pos.StopLossOrderID # 0
                THEN CancelOrder(w1, w1.pos.StopLossOrderID,
                                 w1.pos.StopLossOrderID \in r.cancels)
                ELSE w1
        w3 == IF w2.pos.TakeProfitOrderID # 0
                THEN CancelOrder(w2, w2.pos.TakeProfitOrderID,
                                 w2.pos.TakeProfitOrderID \in r.cancels)
                ELSE w2
        w4 == cancelAll(w3, w3.pos.PartialExitOrders, r)
        exit == w4.pos.Status \in {"ACTIVE", "PARTIAL"} /\ w4.pos.RemainingQty > 0
    IN  IF exit /\ ~Accepts(w4, r.placeExit) THEN w4
        ELSE LET w5 == IF exit
                         THEN [w4 EXCEPT !.orders =
                                 Append(@, Order(w4.pos.ID, "exit", exitSide(w4.pos.Side),
                                                 "market", "day", w4.pos.RemainingQty, 0))]
                         ELSE w4
                 w6 == [w5 EXCEPT !.pos.Status = closedStatus(w5.pos),
                                  !.pos.ClosedAt = TRUE]
             IN  savePositionToDB(w6, r.save)

\* A variant of CloseManagedPosition whose exit order is for the quantity the
\* position was opened with.
CloseManagedPositionExitsQuantity(w, r) ==
    LET w1 == IF w.pos.EntryOrderID # 0
                THEN CancelOrder(w, w.pos.EntryOrderID, w.pos.EntryOrderID \in r.cancels)
                ELSE w
        w2 == IF w1.pos.StopLossOrderID # 0
                THEN CancelOrder(w1, w1.pos.StopLossOrderID,
                                 w1.pos.StopLossOrderID \in r.cancels)
                ELSE w1
        w3 == IF w2.pos.TakeProfitOrderID # 0
                THEN CancelOrder(w2, w2.pos.TakeProfitOrderID,
                                 w2.pos.TakeProfitOrderID \in r.cancels)
                ELSE w2
        w4 == cancelAll(w3, w3.pos.PartialExitOrders, r)
        w5 == IF /\ w4.pos.Status \in {"ACTIVE", "PARTIAL"}
                 /\ w4.pos.RemainingQty > 0
                 /\ Accepts(w4, r.placeExit)
                THEN [w4 EXCEPT !.orders =
                        Append(@, Order(w4.pos.ID, "exit", exitSide(w4.pos.Side),
                                        "market", "day", w4.pos.Quantity, 0))]
                ELSE w4
        w6 == [w5 EXCEPT !.pos.Status = closedStatus(w5.pos),
                         !.pos.ClosedAt = TRUE]
    IN  savePositionToDB(w6, r.save)

\* CloseManagedPosition (625-709) for a position of the working set: the
\* cancels (637-665), the market exit order of an Active or Partial position
\* with something left (668-693), the status and the store write.
CloseManagedPosition(w, r) ==
    LET w1 == IF w.pos.EntryOrderID # 0
                THEN CancelOrder(w, w.pos.EntryOrderID, w.pos.EntryOrderID \in r.cancels)
                ELSE w
        w2 == IF w1.pos.StopLossOrderID # 0
                THEN CancelOrder(w1, w1.pos.StopLossOrderID,
                                 w1.pos.StopLossOrderID \in r.cancels)
                ELSE w1
        w3 == IF w2.pos.TakeProfitOrderID # 0
                THEN CancelOrder(w2, w2.pos.TakeProfitOrderID,
                                 w2.pos.TakeProfitOrderID \in r.cancels)
                ELSE w2
        w4 == cancelAll(w3, w3.pos.PartialExitOrders, r)
        w5 == IF /\ w4.pos.Status \in {"ACTIVE", "PARTIAL"}
                 /\ w4.pos.RemainingQty > 0
                 /\ Accepts(w4, r.placeExit)
                THEN [w4 EXCEPT !.orders =
                        Append(@, Order(w4.pos.ID, "exit", exitSide(w4.pos.Side),
                                        "market", "day", w4.pos.RemainingQty, 0))]
                ELSE w4
        w6 == [w5 EXCEPT !.pos.Status = closedStatus(w5.pos),
                         !.pos.ClosedAt = TRUE]
    IN  savePositionToDB(w6, r.save)

\* ------------------------------------------------------------- outcomes of the calls
Range(seq) == {seq[i] : i \in 1..Len(seq)}

OrderIDsOf(pos) ==
    ({pos.EntryOrderID, pos.StopLossOrderID, pos.TakeProfitOrderID}
        \cup Range(pos.PartialExitOrders)) \ {0}

FilledOf(pos) == {id \in OrderIDsOf(pos) : orders[id].status = "filled"}

LiveOf(pos) == {id \in OrderIDsOf(pos) : IsLive(orders[id])}

Maybe(cond) == IF cond THEN BOOLEAN ELSE {FALSE}

\* What the calls of one turn of the checkPositions loop can return: the
\* quote read (0: the call fails), the filled orders whose GetOrder succeeds
\* (the GetOrder of an order that is not filled changes nothing whether it
\* succeeds or not), the placements the broker accepts, whether the cancel
\* of the old stop goes through, the store writes that go through.  A call
\* the turn cannot make has the one outcome FALSE.
PassOutcomesAt(pos, marks) ==
    LET pending == pos.Status = "PENDING"
        entered == pending /\ pos.EntryOrderID \in FilledOf(pos)
        managed == pos.Status \in {"ACTIVE", "PARTIAL"}
    IN  [quote : IF managed THEN marks \cup {0} ELSE {0},
         got : IF pending \/ managed THEN SUBSET FilledOf(pos) ELSE {{}},
         placeStop : Maybe(entered \/ (managed /\ pos.TrailingStop)),
         placeTakeProfit : Maybe(entered),
         placePartial : Maybe(entered /\ pos.PartialExit),
         cancel : Maybe(managed /\ pos.TrailingStop /\ pos.StopLossOrderID \in LiveOf(pos)),
         save : Maybe(entered \/ managed),
         savePartial : IF managed
                         THEN SUBSET (FilledOf(pos) \cap Range(pos.PartialExitOrders))
                         ELSE {{}}]

PassOutcomes(pos) == PassOutcomesAt(pos, Marks)

\* What the calls of a close can return: the open orders whose cancel goes
\* through (the cancel of any other order is an error), whether the broker
\* accepts the exit order, whether the store write goes through.
CloseOutcomes(pos) ==
    [cancels : SUBSET LiveOf(pos),
     placeExit : Maybe(pos.Status \in {"ACTIVE", "PARTIAL"} /\ pos.RemainingQty > 0),
     save : BOOLEAN]

\* ------------------------------------------------------------- actions
World(p) == [pos |-> positions[p], orders |-> orders, db |-> db]

Leaves(p, w) ==
    /\ positions' = [positions EXCEPT ![p] = w.pos]
    /\ orders' = w.orders
    /\ db' = w.db
    /\ UNCHANGED <<crashes, monitor>>

\* A PlaceManagedPositionRequest for a market entry, with the quote
\* getCurrentPrice reads for it; the stop and the target are given as
\* percentages.  A partial exit of 0 percent is no partial exit.
Request(o, allocation, trailing, partialPercent) ==
    [Side |-> o.Side, quote |-> o.quote, AllocationDollars |-> allocation,
     EntryStrategy |-> "market", EntryPrice |-> <<>>,
     StopLossPrice |-> <<>>, StopLossPercent |-> <<StopLossPercent>>,
     TrailingStop |-> trailing, TrailingPercent |-> TrailingPercent,
     TakeProfitPrice |-> <<>>, TakeProfitPercent |-> <<TakeProfitPercent>>,
     PartialExit |-> partialPercent # 0, PartialExitPercent |-> partialPercent]

\* The requests positions are opened with.
Requests ==
    {Request(o, AllocationDollars, trailing, pct) :
        o \in Openings, trailing \in BOOLEAN, pct \in {0, PartialExitPercent}}
    \cup {Request(o, AllocationDollars, FALSE, OversizedPartialExitPercent) :
            o \in {q \in Openings : q.Side = "buy"}}
    \cup {Request(o, SmallAllocationDollars, FALSE, 0) :
            o \in {q \in Openings : q.Side = "buy"}}

\* validateRequest (713-731): TRUE when it returns no error.
validateRequest(req) ==
    /\ req.Side \in {"buy", "sell"}
    /\ ~(req.EntryStrategy = "limit" /\ req.EntryPrice = <<>>)
    /\ ~(req.StopLossPrice = <<>> /\ req.StopLossPercent = <<>>)
    /\ ~(req.TakeProfitPrice = <<>> /\ req.TakeProfitPercent = <<>>)

\* Lines 152-208: price discovery, sizing, the new record.
NewPosition(id, req) ==
    LET entryPrice == IF req.EntryPrice # <<>> THEN req.EntryPrice[1] ELSE req.quote
        quantity == calculateQuantity(req.AllocationDollars, entryPrice)
    IN  [ID |-> id, Side |-> req.Side,
         Quantity |-> quantity,
         EntryPrice |-> entryPrice, EntryOrderID |-> 0,
         StopLossPrice |-> calculateStopLoss(entryPrice, req.StopLossPrice,
                                             req.StopLossPercent, req.Side),
         StopLossOrderID |-> 0,
         TrailingStop |-> req.TrailingStop, TrailingPercent |-> req.TrailingPercent,
         TakeProfitPrice |-> calculateTakeProfit(entryPrice, req.TakeProfitPrice,
                                                 req.TakeProfitPercent, req.Side),
         TakeProfitOrderID |-> 0,
         PartialExit |-> req.PartialExit,
         PartialExitPercent |-> req.PartialExitPercent,
         PartialExitTargetPrice |->
            IF req.PartialExit
                THEN calculatePartialExitPrice(entryPrice, PartialExitTargetPercent,
                                               req.Side)
                ELSE 0,
         PartialExitOrders |-> <<>>,
         Status |-> "PENDING", CurrentPrice |-> req.quote,
         RemainingQty |-> quantity,
         ClosedAt |-> FALSE]

\* generatePositionID: an id no earlier position has used.
FreshIDs ==
    {id \in PositionIDs :
        /\ id \notin DOMAIN positions
        /\ id \notin DOMAIN db
        /\ \A i \in 1..Len(orders) : orders[i].pos # id}

\* PlaceManagedPosition (145-236) from the entry order on: the order (an
\* error returns before anything is kept), the insertion into pm.positions,
\* the store write, whose error is only logged.  The action is the whole
\* function: a request validateRequest refuses returns at line 149.
PlacedPosition(w, r) ==
    LET w1 == placeEntryOrder(w, r.placeEntry)
    IN  IF w1.pos.EntryOrderID = 0 THEN w1 ELSE savePositionToDB(w1, r.save)

PlaceManagedPositionOf(requests) ==
    \E id \in FreshIDs, req \in requests,
       r \in [placeEntry : BOOLEAN, save : BOOLEAN] :
        LET w == PlacedPosition([pos |-> NewPosition(id, req),
                                 orders |-> orders, db |-> db], r)
        IN  /\ validateRequest(req)
            /\ w.pos.EntryOrderID # 0
            /\ positions' = positions @@ (id :> w.pos)
            /\ orders' = w.orders
            /\ db' = w.db
            /\ UNCHANGED <<crashes, inflight, monitor>>

PlaceManagedPosition == PlaceManagedPositionOf(Requests)

\* One turn of the loop of checkPositions, started by the 10 s ticker of
\* MonitorPositions, run to its end with no other goroutine in between.  The
\* monitor is one goroutine: no turn starts while one waits.  The select of
\* MonitorPositions (278-284) takes the ticker's case when a tick is due, also
\* when the context is cancelled by then: of the cases that are ready it
\* takes any.
checkPositionsAt(marks) ==
    /\ inflight = <<>>
    /\ monitor # "returned"
    /\ \E p \in DOMAIN positions :
          \E r \in PassOutcomesAt(positions[p], marks) :
              Leaves(p, checkPosition(World(p), r))
    /\ UNCHANGED inflight

checkPositions == checkPositionsAt(Marks)

\* checkPositions works on the pointers it copied under the read lock
\* (290-295) and holds no lock afterwards; CloseManagedPosition releases the
\* lock after the lookup (626-628).  The turn of a Pending position can
\* therefore be overtaken inside checkEntryOrder: it has read Status PENDING
\* (303), GetOrder (328) is answered "filled", and the handlers of the other
\* goroutines run before it goes on at line 334.
checkEntryOrderWaits ==
    /\ inflight = <<>>
    /\ monitor # "returned"
    /\ \E p \in DOMAIN positions :
          /\ positions[p].Status = "PENDING"
          /\ positions[p].EntryOrderID \in FilledOf(positions[p])
          /\ inflight' = <<p>>
    /\ UNCHANGED <<positions, db, orders, crashes, monitor>>

\* What the calls of checkEntryOrder after GetOrder can return.
EntryOutcomes(pos) ==
    [quote : {0}, got : {{pos.EntryOrderID}},
     placeStop : BOOLEAN, placeTakeProfit : BOOLEAN,
     placePartial : Maybe(pos.PartialExit),
     cancel : {FALSE}, save : BOOLEAN, savePartial : {{}}]

\* The waiting turn goes on: lines 334-349 on the record as it is now.
checkEntryOrderResumes ==
    /\ inflight # <<>>
    /\ \E r \in EntryOutcomes(positions[inflight[1]]) :
          Leaves(inflight[1], checkEntryOrder(World(inflight[1]), r))
    /\ inflight' = <<>>

\* CloseManagedPosition, called by the HTTP handler's goroutine.
ClosePosition ==
    /\ \E p \in DOMAIN positions :
          \E r \in CloseOutcomes(positions[p]) :
              Leaves(p, CloseManagedPosition(World(p), r))
    /\ UNCHANGED inflight

\* The broker fills an open order: a market order at a price of its own, a
\* stop or limit order at the order's price.
BrokerFillAt(fills) ==
    /\ \E i \in 1..Len(orders) :
          /\ IsLive(orders[i])
          /\ \E mark \in IF orders[i].price = 0 THEN fills ELSE {orders[i].price} :
                orders' = [orders EXCEPT ![i].status = "filled", ![i].avg = mark]
    /\ UNCHANGED <<positions, db, crashes, inflight, monitor>>

BrokerFill == BrokerFillAt(MarketFills)

\* The broker fills part of an entry order.
BrokerPartialFill ==
    /\ \E i \in 1..Len(orders) :
          /\ orders[i].role = "entry"
          /\ orders[i].status = "accepted"
          /\ orders' = [orders EXCEPT ![i].status = "partially_filled"]
    /\ UNCHANGED <<positions, db, crashes, inflight, monitor>>

\* The broker cancels or rejects an entry order on its own.
BrokerCancel ==
    /\ \E i \in 1..Len(orders) :
          /\ orders[i].role = "entry"
          /\ IsLive(orders[i])
          /\ orders' = [orders EXCEPT ![i].status = "canceled"]
    /\ UNCHANGED <<positions, db, crashes, inflight, monitor>>

\* A variant of loadPositionsFromDB that skips no row.
loadPositionsFromDBSkipsNone(table) ==
    [p \in DOMAIN table |-> dbToManagedPosition(table[p])]

\* loadPositionsFromDB (792-816): the working set of a new process; the rows
\* of Closed and StoppedOut positions are skipped.
loadPositionsFromDB(table) ==
    LET keep == {p \in DOMAIN table : table[p].Status \notin {"CLOSED", "STOPPED_OUT"}}
    IN  [p \in keep |-> dbToManagedPosition(table[p])]

\* The process is killed and started again: NewPositionManager (114-142).
\* A failing query leaves the working set empty (the error is only logged).
Restart ==
    /\ crashes < MaxCrashes
    /\ crashes' = crashes + 1
    /\ inflight' = <<>>
    /\ monitor' = "running"
    /\ positions' \in {loadPositionsFromDB(db), EmptyMap}
    /\ UNCHANGED <<db, orders>>

\* Stop (787-789) cancels the context of the manager, which is taken to be
\* the one MonitorPositions was started with.
Stop ==
    /\ monitor = "running"
    /\ monitor' = "cancelled"
    /\ UNCHANGED <<positions, db, orders, crashes, inflight>>

\* The select of MonitorPositions takes the case of ctx.Done() and the
\* goroutine returns (279-281).
MonitorReturns ==
    /\ monitor = "cancelled"
    /\ inflight = <<>>
    /\ monitor' = "returned"
    /\ UNCHANGED <<positions, db, orders, crashes, inflight>>

\* ------------------------------------------------------------- specification
\* Spec is the engine as long as Stop is not called, ShutdownSpec the engine
\* with Stop.
Next ==
    \/ PlaceManagedPosition
    \/ checkPositions
    \/ checkEntryOrderWaits
    \/ checkEntryOrderResumes
    \/ ClosePosition
    \/ BrokerFill
    \/ BrokerPartialFill
    \/ BrokerCancel
    \/ Restart

Spec == Init /\ [][Next]_vars

ShutdownNext ==
    \/ Next
    \/ Stop
    \/ MonitorReturns

ShutdownSpec == Init /\ [][ShutdownNext]_vars

\* ------------------------------------------------------------- vocabulary of the claims
Terminal == {"CLOSED", "STOPPED_OUT", "FAILED"}

Protective == {"stop", "take_profit", "partial_exit"}

\* The broker's orders of a position in a role, and the open ones among them.
OrdersOf(p, role) ==
    {i \in 1..Len(orders) : orders[i].pos = p /\ orders[i].role = role}

LiveOrdersOf(p, role) == {i \in OrdersOf(p, role) : IsLive(orders[i])}

\* The orders of a position in a role that the broker has not canceled.
StandingOrdersOf(p, role) ==
    {i \in OrdersOf(p, role) : orders[i].status # "canceled"}

\* The open stop, take-profit and partial-exit orders of a position.
LiveProtective(p) ==
    LiveOrdersOf(p, "stop") \cup LiveOrdersOf(p, "take_profit")
        \cup LiveOrdersOf(p, "partial_exit")

\* Whether the row of a position records the order id in the field of its role.
Recorded(row, i) ==
    \/ orders[i].role = "entry" /\ row.EntryOrderID = i
    \/ orders[i].role = "stop" /\ row.StopLossOrderID = i
    \/ orders[i].role = "take_profit" /\ row.TakeProfitOrderID = i
    \/ orders[i].role = "partial_exit" /\ i \in Range(UnmarshalIDs(row.PartialExitOrders))

\* A step of the engine proper: no restart.
SameProcess == crashes' = crashes

\* The orders a step adds to the broker's list.
NewOrders == (Len(orders) + 1)..Len(orders')

\* The record a pass with the broker answers r leaves, started from pos.
AfterPass(pos, r) == checkPosition([pos |-> pos, orders |-> orders, db |-> db], r).pos

\* ------------------------------------------------------------- claims
\* C1: after a restart the engine never submits a stop, take-profit or
\* partial-exit order for a position that already has a standing order of
\* that kind at the broker (the order its record names, which a trailing
\* update replaces, left aside).
C1_NoDuplicateAfterRestart ==
    [][crashes > 0 =>
        \A i \in NewOrders :
            orders'[i].role \in Protective =>
                StandingOrdersOf(orders'[i].pos, orders'[i].role)
                    \subseteq OrderIDsOf(positions[orders'[i].pos])]_vars

\* The fields of a record the crash comparison is about.
Projection(pos) ==
    [Status |-> pos.Status, EntryOrderID |-> pos.EntryOrderID,
     StopLossOrderID |-> pos.StopLossOrderID,
     TakeProfitOrderID |-> pos.TakeProfitOrderID,
     PartialExitOrders |-> pos.PartialExitOrders,
     StopLossPrice |-> pos.StopLossPrice, TakeProfitPrice |-> pos.TakeProfitPrice,
     RemainingQty |-> pos.RemainingQty]

\* C2: killing the process now, recovering from the store and running one
\* pass leaves every position the store gives back with the status, order
\* ids, stop and take-profit prices and remaining quantity that the same pass
\* leaves when the process is not killed, whatever the broker answers in it.
C2_CrashEquivalence ==
    \A p \in DOMAIN positions \cap DOMAIN loadPositionsFromDB(db) :
        \A r \in PassOutcomes(positions[p]) \cup PassOutcomes(loadPositionsFromDB(db)[p]) :
            Projection(AfterPass(loadPositionsFromDB(db)[p], r))
                = Projection(AfterPass(positions[p], r))

\* C3: an entry order is at the broker only if the record of its position has
\* been written to the store (the record is written before the order is
\* submitted, and a failed write submits nothing).
C3_PersistBeforeSubmit ==
    \A i \in 1..Len(orders) :
        orders[i].role = "entry" => orders[i].pos \in DOMAIN db

\* C4: every entry, stop, take-profit and partial-exit order the engine has
\* submitted has its id recorded in the store record of its position (stated
\* for the positions that have a store record).
C4_NoLostOrder ==
    \A i \in 1..Len(orders) :
        orders[i].role \in Protective \cup {"entry"} /\ orders[i].pos \in DOMAIN db =>
            Recorded(db[orders[i].pos], i)

\* C5: once the status of a record is Closed, StoppedOut or Failed, no pass
\* and no close changes it.
C5_TerminalMonotonic ==
    [][SameProcess =>
        \A p \in DOMAIN positions :
            positions[p].Status \in Terminal =>
                positions'[p].Status = positions[p].Status]_vars

\* The status changes of the lifecycle as the claim draws them.
ClaimedDAG ==
    {<<"PENDING", "ACTIVE">>, <<"PENDING", "FAILED">>,
     <<"ACTIVE", "PARTIAL">>, <<"ACTIVE", "CLOSED">>, <<"ACTIVE", "STOPPED_OUT">>,
     <<"PARTIAL", "PARTIAL">>, <<"PARTIAL", "CLOSED">>, <<"PARTIAL", "STOPPED_OUT">>}

\* The status changes a step of the running process makes to the records
\* that are not terminal.
StatusChanges ==
    {<<positions[p].Status, positions'[p].Status>> :
        p \in {q \in DOMAIN positions :
                  /\ positions[q].Status \notin Terminal
                  /\ positions'[q].Status # positions[q].Status}}

\* C6 as stated: every status change a pass or a close makes to a record that
\* is not terminal is an edge of the claimed graph.
C6_DAGAsStated == [][SameProcess => StatusChanges \subseteq ClaimedDAG]_vars

\* C6: every status change a pass or a close makes to a record that is not
\* terminal is an edge of the claimed graph, or is the close of a Pending
\* position, which leaves it Closed.
C6_DAG ==
    [][SameProcess =>
        StatusChanges \subseteq ClaimedDAG \cup {<<"PENDING", "CLOSED">>}]_vars

\* A position closed while its entry order was still open: the close canceled
\* the entry order and no protective order was ever placed.
C6_Witness ==
    \E p \in DOMAIN positions :
        /\ positions[p].Status = "CLOSED"
        /\ orders[positions[p].EntryOrderID].status = "canceled"
        /\ positions[p].StopLossOrderID = 0
        /\ positions[p].TakeProfitOrderID = 0
        /\ OrdersOf(p, "exit") = {}

\* C7: at most one stop order and at most one take-profit order of a position
\* is open at the broker.
C7_AtMostOneLive ==
    \A p \in PositionIDs :
        /\ Cardinality(LiveOrdersOf(p, "stop")) <= 1
        /\ Cardinality(LiveOrdersOf(p, "take_profit")) <= 1

\* C8: while a position is Active or Partial, each of its open stop and
\* take-profit orders has the quantity remaining_quantity of the record.
C8_SizedToRemaining ==
    \A p \in DOMAIN positions :
        positions[p].Status \in {"ACTIVE", "PARTIAL"} =>
            \A i \in LiveOrdersOf(p, "stop") \cup LiveOrdersOf(p, "take_profit") :
                orders[i].qty = positions[p].RemainingQty

\* The ticker of the monitor goroutine fires for as long as the process runs,
\* so a pass that can change something is eventually made, and a turn that
\* waits for the broker eventually goes on.
FairSpec == Spec /\ WF_vars(checkPositions) /\ WF_vars(checkEntryOrderResumes)

\* C9: once a stop fill has left a position StoppedOut, eventually none of its
\* stop, take-profit and partial-exit orders is open at the broker (the claim
\* says so of every terminal status).
C9_EventuallyRetired ==
    \A p \in PositionIDs :
        (p \in DOMAIN positions /\ positions[p].Status = "STOPPED_OUT")
            ~> (LiveProtective(p) = {})

\* A pass polls the risk orders of p and GetOrder answers for the stop-loss
\* order, while the broker has filled both the stop-loss and the take-profit
\* order.
BothFilled(p, r) ==
    /\ positions[p].Status = "ACTIVE"
    /\ r.quote # 0
    /\ positions[p].StopLossOrderID \in FilledOf(positions[p]) \cap r.got
    /\ positions[p].TakeProfitOrderID \in FilledOf(positions[p])

\* C10: a pass that finds both the stop-loss and the take-profit order filled
\* leaves the position StoppedOut whatever else the broker answers, and a
\* pass over a StoppedOut position leaves it StoppedOut.
C10_StopWins ==
    \A p \in DOMAIN positions : \A r \in PassOutcomes(positions[p]) :
        /\ BothFilled(p, r) => AfterPass(positions[p], r).Status = "STOPPED_OUT"
        /\ positions[p].Status = "STOPPED_OUT" =>
              AfterPass(positions[p], r).Status = "STOPPED_OUT"

\* A position is StoppedOut while the broker has filled both its stop-loss and
\* its take-profit order.
C10_Witness ==
    \E p \in DOMAIN positions :
        /\ positions[p].Status = "STOPPED_OUT"
        /\ {positions[p].StopLossOrderID, positions[p].TakeProfitOrderID}
               \subseteq FilledOf(positions[p])

\* C11: in the running process, once a position has left Pending its stop
\* price never decreases if it is long and never increases if it is short,
\* and the stop price of a record changes only by a trailing update: the
\* position trails and the new stop price is the candidate computed from the
\* price the pass has just read.
C11_TrailingRatchet ==
    [][SameProcess =>
        \A p \in DOMAIN positions :
            /\ positions[p].Status # "PENDING" =>
                  IF positions[p].Side = "buy"
                      THEN positions'[p].StopLossPrice >= positions[p].StopLossPrice
                      ELSE positions'[p].StopLossPrice <= positions[p].StopLossPrice
            /\ positions'[p].StopLossPrice # positions[p].StopLossPrice =>
                  /\ positions[p].TrailingStop
                  /\ positions'[p].StopLossPrice = newStopPrice(positions'[p])]_vars

\* A trailing position whose stop has been raised (long) or lowered (short)
\* and whose last mark has since turned back to where a fresh candidate
\* would loosen the stop.
C11_Witness ==
    \E p \in DOMAIN positions :
        /\ positions[p].TrailingStop
        /\ positions[p].Status = "ACTIVE"
        /\ IF positions[p].Side = "buy"
               THEN newStopPrice(positions[p]) < positions[p].StopLossPrice
               ELSE newStopPrice(positions[p]) > positions[p].StopLossPrice

\* C12: a pass in which every GetOrder fails leaves the status of the record
\* as it was, a pass whose quote fails leaves a managed record as it was, and
\* a pass makes a record terminal only when GetOrder has answered that its
\* stop-loss or its take-profit order is filled; no failed placement or
\* cancel makes a record terminal.
C12_NoTerminalOnError ==
    \A p \in DOMAIN positions : \A r \in PassOutcomes(positions[p]) :
        /\ r.got = {} => AfterPass(positions[p], r).Status = positions[p].Status
        /\ positions[p].Status \in {"ACTIVE", "PARTIAL"} /\ r.quote = 0 =>
              AfterPass(positions[p], r) = positions[p]
        /\ /\ positions[p].Status \notin Terminal
           /\ AfterPass(positions[p], r).Status \in Terminal
           => \E id \in {positions[p].StopLossOrderID, positions[p].TakeProfitOrderID} :
                  id \in r.got /\ id \in FilledOf(positions[p])

\* The placement of the stop-loss order failed in the pass that made the
\* position Active (its take-profit order was placed), and the position is
\* Active.
C12_Witness ==
    \E p \in DOMAIN positions :
        /\ positions[p].Status = "ACTIVE"
        /\ positions[p].StopLossOrderID = 0
        /\ positions[p].TakeProfitOrderID # 0
        /\ OrdersOf(p, "stop") = {}

\* C13: a save that goes through, of a record whose id the store already
\* holds, leaves the store holding that record.
C13_UpsertReplaces ==
    \A p \in DOMAIN positions \cap DOMAIN db :
        SaveManagedPosition(db, managedPositionToDB(positions[p]), TRUE)[p]
            = managedPositionToDB(positions[p])

\* C14: a Pending position whose entry order the broker has canceled is made
\* Failed by a pass whose calls go through.
C14_CanceledEntryFails ==
    \A p \in DOMAIN positions :
        /\ positions[p].Status = "PENDING"
        /\ orders[positions[p].EntryOrderID].status = "canceled"
        => \E r \in PassOutcomes(positions[p]) :
               AfterPass(positions[p], r).Status = "FAILED"

\* What PlaceManagedPosition leaves of a request when the broker refuses the
\* entry order and the store works.
Refused(id, req) ==
    PlacedPosition([pos |-> NewPosition(id, req), orders |-> orders, db |-> db],
                   [placeEntry |-> FALSE, save |-> TRUE])

\* C15: an open whose entry order the broker refuses leaves a record of the
\* position with status Failed in the store.
C15_RefusedEntryRecorded ==
    \A id \in FreshIDs, req \in Requests :
        /\ id \in DOMAIN Refused(id, req).db
        /\ Refused(id, req).db[id].Status = "FAILED"

\* C16: a position whose entry order is open at the broker (accepted or
\* partly filled) is Pending, unless a close has marked it Closed; it has no
\* stop, take-profit or partial-exit order at the broker; and a pass over it,
\* whatever the broker answers, changes neither the record nor the broker's
\* orders nor the store.
C16_PendingUntilFilled ==
    \A p \in DOMAIN positions :
        IsLive(orders[positions[p].EntryOrderID]) =>
            /\ positions[p].Status \in {"PENDING", "CLOSED"}
            /\ \A role \in Protective : OrdersOf(p, role) = {}
            /\ \A r \in PassOutcomes(positions[p]) :
                  checkPosition(World(p), r) = World(p)

\* A Pending position whose entry order the broker has partly filled.
C16_Witness ==
    \E p \in DOMAIN positions :
        /\ positions[p].Status = "PENDING"
        /\ orders[positions[p].EntryOrderID].status = "partially_filled"

\* C17: the take-profit price of an Active or Partial record, and the stop
\* price of one that does not trail, are the percentages of the request
\* applied to the price the entry order filled at, and the take-profit orders
\* are placed at that price.
C17_BoundToFill ==
    \A p \in DOMAIN positions :
        positions[p].Status \in {"ACTIVE", "PARTIAL"} =>
            /\ positions[p].TakeProfitPrice
                  = calculateTakeProfit(positions[p].EntryPrice, <<>>,
                                        <<TakeProfitPercent>>,
                                        positions[p].Side)
            /\ ~positions[p].TrailingStop =>
                  positions[p].StopLossPrice
                      = calculateStopLoss(positions[p].EntryPrice, <<>>,
                                          <<StopLossPercent>>,
                                          positions[p].Side)
            /\ \A i \in OrdersOf(p, "take_profit") :
                  orders[i].price
                      = calculateTakeProfit(positions[p].EntryPrice, <<>>,
                                        <<TakeProfitPercent>>,
                                            positions[p].Side)

\* The answers of a pass in which the quote is q and every call goes through.
AllSucceed(pos, q) ==
    [quote |-> q, got |-> FilledOf(pos),
     placeStop |-> TRUE, placeTakeProfit |-> TRUE, placePartial |-> TRUE,
     cancel |-> TRUE, save |-> TRUE,
     savePartial |-> FilledOf(pos) \cap Range(pos.PartialExitOrders)]

\* C18: a pass in which every call goes through, over an Active position
\* that lacks its stop-loss or its take-profit order and none of whose exit
\* orders has filled, leaves the record with the missing order placed.
C18_MissingOrderRetried ==
    \A p \in DOMAIN positions : \A q \in Marks :
        /\ positions[p].Status = "ACTIVE"
        /\ FilledOf(positions[p]) \subseteq {positions[p].EntryOrderID}
        /\ Len(orders) + 2 <= MaxOrders
        => /\ AfterPass(positions[p], AllSucceed(positions[p], q)).StopLossOrderID # 0
           /\ AfterPass(positions[p], AllSucceed(positions[p], q)).TakeProfitOrderID # 0

\* C20: a pass none of whose store writes goes through leaves the status of
\* the record as it was before the pass.
C20_StoreErrorAborts ==
    \A p \in DOMAIN positions : \A r \in PassOutcomes(positions[p]) :
        ~r.save /\ r.savePartial = {} =>
            AfterPass(positions[p], r).Status = positions[p].Status

\* The answers of a pass and of the pass after it when the broker's view does
\* not change: those of PassOutcomes, with the quote a pass over a position
\* that was Pending does not read.
Views(pos) ==
    {[r EXCEPT !.quote = q] : r \in PassOutcomes(pos), q \in Marks \cup {0}}

\* The world one, two and three passes over position p leave when the broker
\* answers r in each.
Once(p, r) == checkPosition(World(p), r)

Twice(p, r) == checkPosition(Once(p, r), r)

Thrice(p, r) == checkPosition(Twice(p, r), r)

BrokerCallFails(pos, r) ==
    \/ /\ pos.Status = "PENDING"
       /\ pos.EntryOrderID \in FilledOf(pos)
       /\ \/ pos.EntryOrderID \notin r.got
          \/ ~r.placeStop
          \/ ~r.placeTakeProfit
          \/ pos.PartialExit /\ ~r.placePartial
    \/ /\ pos.Status \in {"ACTIVE", "PARTIAL"}
       /\ \/ r.quote = 0
          \/ /\ pos.TrailingStop
             /\ Better([pos EXCEPT !.CurrentPrice = r.quote])
             /\ ~r.placeStop

\* C21: a pass in which a broker call made for the position fails leaves the
\* record's status, order ids, stop and take-profit prices and remaining
\* quantity as they were before the pass.
C21_FailedCallLeavesRecord ==
    \A p \in DOMAIN positions : \A r \in PassOutcomes(positions[p]) :
        BrokerCallFails(positions[p], r) =>
            Projection(AfterPass(positions[p], r)) = Projection(positions[p])

\* C22: a close of a position of the working set leaves the record CLOSED
\* with ClosedAt set, whichever cancels go through and whether or not the
\* broker accepts the exit order and the store the write.
C22_CloseAlwaysCloses ==
    \A p \in DOMAIN positions : \A r \in CloseOutcomes(positions[p]) :
        /\ CloseManagedPosition(World(p), r).pos.Status = "CLOSED"
        /\ CloseManagedPosition(World(p), r).pos.ClosedAt

\* A position closed while its entry order stayed open at the broker: the
\* cancel of the close failed.
C22_Witness ==
    \E p \in DOMAIN positions :
        /\ positions[p].Status = "CLOSED"
        /\ positions[p].ClosedAt
        /\ IsLive(orders[positions[p].EntryOrderID])

\* The orders a close of position p with the answers r adds to the broker's
\* list.
ExitOrders(p, r) ==
    LET w == CloseManagedPosition(World(p), r)
    IN  {w.orders[i] : i \in (Len(orders) + 1)..Len(w.orders)}

\* C23: a close adds an order exactly when the position is ACTIVE or PARTIAL
\* with a positive remaining quantity (and the broker accepts the order); the
\* order is the one market order, time in force day, for the remaining
\* quantity on the side opposite to the position's.
C23_ExitOrder ==
    \A p \in DOMAIN positions : \A r \in CloseOutcomes(positions[p]) :
        IF /\ positions[p].Status \in {"ACTIVE", "PARTIAL"}
           /\ positions[p].RemainingQty > 0
           /\ Accepts(World(p), r.placeExit)
            THEN /\ Len(CloseManagedPosition(World(p), r).orders) = Len(orders) + 1
                 /\ \A o \in ExitOrders(p, r) :
                       /\ o.pos = p
                       /\ o.type = "market"
                       /\ o.tif = "day"
                       /\ o.qty = positions[p].RemainingQty
                       /\ o.side \in {"buy", "sell"} \ {positions[p].Side}
            ELSE Len(CloseManagedPosition(World(p), r).orders) = Len(orders)

\* A close has submitted the exit order of a position whose partial exit had
\* been filled: the order is for what was left.
C23_Witness ==
    \E p \in DOMAIN positions : \E i \in OrdersOf(p, "exit") :
        /\ positions[p].Status = "CLOSED"
        /\ orders[i].qty = positions[p].RemainingQty
        /\ positions[p].RemainingQty < positions[p].Quantity

\* ListManagedPositions (594-622): the ids of the records it returns.  stale
\* is the set of positions created more than 24 hours before the call; the
\* clock is not part of the state, so any position can be in it.
ListManagedPositions(status, stale) ==
    {p \in DOMAIN positions :
        /\ ~(positions[p].Status = "PENDING" /\ p \in stale)
        /\ (status = "" \/ positions[p].Status = status)}

\* C24: the listing with the empty status leaves out exactly the Pending
\* positions older than 24 hours, and the listing with the status "all"
\* returns the whole working set, stale Pending positions included.
C24_Listing ==
    \A stale \in SUBSET DOMAIN positions :
        /\ ListManagedPositions("", stale)
              = {p \in DOMAIN positions :
                    ~(positions[p].Status = "PENDING" /\ p \in stale)}
        /\ ListManagedPositions("all", stale) = DOMAIN positions

\* Requests that give the stop as a price above the entry of a long
\* position, as a price and a percentage at once, not at all, or as a
\* percentage that is not positive.
OddRequests ==
    {[Request(o, AllocationDollars, FALSE, 0) EXCEPT !.StopLossPrice = price,
                                                      !.StopLossPercent = pct] :
        o \in {q \in Openings : q.Side = "buy"},
        price \in {<<>>, <<GivenStopLossPrice>>},
        pct \in {<<>>, <<0>>, <<StopLossPercent>>}}

\* The stop is on the losing side of the entry price and the target on the
\* winning side.
Ordered(pos) ==
    IF pos.Side = "buy"
        THEN pos.StopLossPrice < pos.EntryPrice /\ pos.EntryPrice < pos.TakeProfitPrice
        ELSE pos.TakeProfitPrice < pos.EntryPrice /\ pos.EntryPrice < pos.StopLossPrice

\* A request open has to refuse: both or neither of the stop price and the
\* stop percentage, a value that is not positive, or prices out of order.
Invalid(req) ==
    \/ (req.StopLossPrice = <<>>) = (req.StopLossPercent = <<>>)
    \/ \E v \in {req.StopLossPrice, req.StopLossPercent} : v # <<>> /\ v[1] <= 0
    \/ ~Ordered(NewPosition("pos_1", req))

\* C25: open refuses every invalid request, and the record of every open it
\* goes through with has its stop and target on the two sides of the entry
\* price.
C25_ValidatedOrdering ==
    \A id \in FreshIDs, req \in Requests \cup OddRequests :
        /\ Invalid(req) => ~validateRequest(req)
        /\ validateRequest(req) =>
              Ordered(PlacedPosition([pos |-> NewPosition(id, req),
                                      orders |-> orders, db |-> db],
                                     [placeEntry |-> TRUE, save |-> TRUE]).pos)

\* C26: no record of the working set or of the store, and no entry order at
\* the broker, is for a quantity of zero.
C26_NoZeroQuantity ==
    /\ \A p \in DOMAIN positions : positions[p].Quantity > 0
    /\ \A p \in DOMAIN db : db[p].Quantity > 0
    /\ \A i \in 1..Len(orders) : orders[i].role = "entry" => orders[i].qty > 0

\* C27: the remaining quantity of every record is between zero and the
\* quantity of the position.
C27_RemainingWithinQuantity ==
    \A p \in DOMAIN positions :
        /\ 0 <= positions[p].RemainingQty
        /\ positions[p].RemainingQty <= positions[p].Quantity

\* C28: a position that is Closed is not set to Active or StoppedOut by the
\* running process, and gets no new stop, take-profit or partial-exit order.
C28_ClosedStaysClosed ==
    [][SameProcess =>
        \A p \in DOMAIN positions :
            positions[p].Status = "CLOSED" =>
                /\ positions'[p].Status \notin {"ACTIVE", "STOPPED_OUT"}
                /\ \A i \in NewOrders :
                      orders'[i].pos = p => orders'[i].role \notin Protective]_vars

\* C29: once the context is cancelled and no turn of a pass waits, the
\* monitor starts no turn: no record becomes Active, Partial or StoppedOut, no
\* stop, take-profit or partial-exit order is submitted, and no turn begins to
\* wait.
C29_NoPassAfterStop ==
    [][monitor = "cancelled" /\ inflight = <<>> /\ SameProcess =>
        /\ inflight' = <<>>
        /\ \A p \in DOMAIN positions :
              positions'[p].Status # positions[p].Status =>
                  positions'[p].Status \notin {"ACTIVE", "PARTIAL", "STOPPED_OUT"}
        /\ \A i \in NewOrders : orders'[i].role \notin Protective]_vars

UsedIDs ==
    {id \in DOMAIN positions :
        /\ Len(orders) > 0
        /\ positions[id].EntryOrderID = Len(orders)
        /\ orders[Len(orders)].status = "accepted"}

\* PlaceManagedPosition with the id of an earlier call: line 217 assigns to
\* the key of the map, the insert of the store meets the unique index.
PlaceManagedPositionSameInstant ==
    \E id \in UsedIDs, req \in Requests,
       r \in [placeEntry : BOOLEAN, save : BOOLEAN] :
        LET w == PlacedPosition([pos |-> NewPosition(id, req),
                                 orders |-> orders, db |-> db], r)
        IN  /\ validateRequest(req)
            /\ w.pos.EntryOrderID # 0
            /\ positions' = [positions EXCEPT ![id] = w.pos]
            /\ orders' = w.orders
            /\ db' = w.db
            /\ UNCHANGED <<crashes, inflight, monitor>>

ClockNext ==
    \/ PlaceManagedPosition
    \/ PlaceManagedPositionSameInstant
    \/ checkPositions
    \/ checkEntryOrderWaits
    \/ checkEntryOrderResumes
    \/ ClosePosition
    \/ BrokerFill
    \/ BrokerCancel

\* One process of the engine with a clock that need not advance between two
\* calls.
ClockSpec == Init /\ [][ClockNext]_vars

\* C31: two positions created by open have distinct ids, so the record the
\* working set holds under an id stays the record of the position that was
\* created under it: the entry order it names never changes.
C31_DistinctIDs ==
    [][SameProcess =>
        \A p \in DOMAIN positions :
            /\ p \in DOMAIN positions'
            /\ positions'[p].EntryOrderID = positions[p].EntryOrderID]_vars

\* ------------------------------------------------------------- C32
\* The trailing ratchet on the example of a long position entered at 100.00
\* with a stop and a trailing distance of 5 percent; prices are in cents.
RatchetEntry == 10000

RatchetPercent == 5

RatchetMarks == <<10200, 11000, 10800, 10500, 11100>>

RatchetRequests ==
    {[Request([Side |-> side, quote |-> RatchetEntry], AllocationDollars, trailing, 0)
        EXCEPT !.StopLossPercent = <<RatchetPercent>>,
               !.TrailingPercent = RatchetPercent] :
        side \in {"buy", "sell"}, trailing \in BOOLEAN}

RatchetOpen == PlaceManagedPositionOf(RatchetRequests)

RatchetFill == BrokerFillAt({RatchetEntry})

RatchetPass == checkPositionsAt(Range(RatchetMarks))

RatchetNext ==
    \/ RatchetOpen
    \/ RatchetFill
    \/ RatchetPass

\* The engine on the example: the position is opened at 100.00, its orders
\* fill, a pass reads any of the marks.
RatchetSpec == Init /\ [][RatchetNext]_vars

\* What the calls of a pass return when the broker reports no fill: the
\* mark, and ok for every placement, cancel and store write.
QuietPass(mark, ok) ==
    [quote |-> mark, got |-> {}, placeStop |-> ok, placeTakeProfit |-> FALSE,
     placePartial |-> FALSE, cancel |-> ok, save |-> ok, savePartial |-> {}]

\* StopLossPrice before the first pass and after each pass of checkPositions
\* over the marks.
RECURSIVE StopSequence(_, _, _)
StopSequence(w, marks, ok) ==
    IF marks = <<>> THEN <<w.pos.StopLossPrice>>
    ELSE <<w.pos.StopLossPrice>>
            \o StopSequence(checkPosition(w, QuietPass(Head(marks), ok)),
                            Tail(marks), ok)

\* The position of the example, before its stop has moved.
RatchetStart(p) ==
    /\ positions[p].Status = "ACTIVE"
    /\ positions[p].Side = "buy"
    /\ positions[p].TrailingStop
    /\ positions[p].TrailingPercent = RatchetPercent
    /\ positions[p].EntryPrice = RatchetEntry
    /\ positions[p].StopLossPrice = 9500

\* C32 as the claim words it: the marks 102, 110, 108, 105, 111 give the
\* stops 95, 95, 104.5, 104.5, 104.5, 105.45.
C32_RatchetAsStated ==
    \A p \in DOMAIN positions, ok \in BOOLEAN :
        RatchetStart(p) =>
            StopSequence(World(p), RatchetMarks, ok)
                = <<9500, 9500, 10450, 10450, 10450, 10545>>

\* C32: for a long position with entry 100, trailing percent 5 and initial
\* stop 95, the marks 102, 110, 108, 105, 111 on successive passes give the
\* stops 95, 96.9, 104.5, 104.5, 104.5, 105.45: the mark 102 already gives a
\* candidate above 95.
C32_Ratchet ==
    \A p \in DOMAIN positions, ok \in BOOLEAN :
        RatchetStart(p) =>
            StopSequence(World(p), RatchetMarks, ok)
                = <<9500, 9690, 10450, 10450, 10450, 10545>>

\* The position of the example after a pass at the mark 111 has moved its
\* stop to 105.45.
C32_Witness ==
    \E p \in DOMAIN positions :
        /\ positions[p].Status = "ACTIVE"
        /\ positions[p].Side = "buy"
        /\ positions[p].TrailingStop
        /\ positions[p].EntryPrice = RatchetEntry
        /\ positions[p].CurrentPrice = 11100
        /\ positions[p].StopLossPrice = 10545

\* ------------------------------------------------------------- C33
\* C33: a pass over a position in status PARTIAL that reads a quote polls
\* its orders: when GetOrder reports the stop order filled the pass leaves
\* the position STOPPED_OUT, and when it reports only the take-profit order
\* filled the pass leaves it CLOSED.
C33_PartialPolled ==
    \A p \in DOMAIN positions :
        positions[p].Status = "PARTIAL" =>
            \A r \in PassOutcomes(positions[p]) :
                LET after == checkPosition(World(p), r).pos
                    stop == positions[p].StopLossOrderID \in r.got
                    take == positions[p].TakeProfitOrderID \in r.got
                IN  r.quote # 0 =>
                        /\ stop => after.Status = "STOPPED_OUT"
                        /\ (take /\ ~stop) => after.Status = "CLOSED"

\* ------------------------------------------------------------- C34
\* C34: a pass over an ACTIVE position in which GetOrder reports the stop
\* order filled leaves the position STOPPED_OUT, and one in which it reports
\* only the take-profit order filled leaves it CLOSED, whether the quote of
\* that pass is read or fails.
C34_FillSeenWhateverQuote ==
    \A p \in DOMAIN positions :
        positions[p].Status = "ACTIVE" =>
            \A r \in PassOutcomes(positions[p]) :
                LET after == checkPosition(World(p), r).pos
                    stop == positions[p].StopLossOrderID \in r.got
                    take == positions[p].TakeProfitOrderID \in r.got
                IN  /\ stop => after.Status = "STOPPED_OUT"
                    /\ (take /\ ~stop) => after.Status = "CLOSED"

\* ------------------------------------------------------------- C35
\* The place of a protective order in the sequence of placeRiskOrders.
RoleRank(role) ==
    IF role = "stop" THEN 1 ELSE IF role = "take_profit" THEN 2 ELSE 3

OddLotAllocationDollars == 50000

OddLotRequests ==
    {Request(o, OddLotAllocationDollars, trailing, PartialExitPercent) :
        o \in Openings, trailing \in BOOLEAN}

OddLotOpen == PlaceManagedPositionOf(OddLotRequests)

OddLotNext ==
    \/ OddLotOpen
    \/ BrokerFill
    \/ checkPositions
    \/ ClosePosition

OddLotSpec == Init /\ [][OddLotNext]_vars

\* C36: the quantity of every order the engine submits is a whole number of
\* shares (Share is one share in the unit of the quantities).
C36_WholeQuantities ==
    \A i \in 1..Len(orders) : orders[i].qty % Share = 0

\* ------------------------------------------------------------- C37
\* C37: a pass that sets a position CLOSED or STOPPED_OUT submits no order
\* for it and leaves its stop order as it is: no trailing update follows the
\* terminal status.
C37_NoOrderAfterTerminal ==
    \A p \in DOMAIN positions :
        \A r \in PassOutcomes(positions[p]) :
            LET w == checkPosition(World(p), r)
            IN  (/\ positions[p].Status \notin {"CLOSED", "STOPPED_OUT"}
                 /\ w.pos.Status \in {"CLOSED", "STOPPED_OUT"})
                    => /\ Len(w.orders) = Len(orders)
                       /\ w.pos.StopLossOrderID = positions[p].StopLossOrderID
                       /\ \A i \in 1..Len(orders) : w.orders[i].status = orders[i].status

\* ------------------------------------------------------------- C38
\* The partial-exit orders of a record that the broker has filled.
FilledPartialExits(pos) ==
    {id \in Range(pos.PartialExitOrders) :
        id \in 1..Len(orders) /\ orders[id].status = "filled"}

\* C38: the quantity of a filled partial-exit order is subtracted from
\* RemainingQty once: a record holds its whole Quantity, or its Quantity less
\* the quantity of one filled partial-exit order, and a pass over a record
\* that is PARTIAL leaves RemainingQty as it is, whatever GetOrder reports.
C38_SubtractedOnce ==
    \A p \in DOMAIN positions :
        /\ \/ positions[p].RemainingQty = positions[p].Quantity
           \/ \E id \in FilledPartialExits(positions[p]) :
                 positions[p].RemainingQty = positions[p].Quantity - orders[id].qty
        /\ positions[p].Status = "PARTIAL" =>
              \A r \in PassOutcomes(positions[p]) :
                  AfterPass(positions[p], r).RemainingQty = positions[p].RemainingQty

\* A PARTIAL record whose filled partial-exit order has been subtracted,
\* with the broker still reporting the order filled.
C38_Witness ==
    \E p \in DOMAIN positions :
        /\ positions[p].Status = "PARTIAL"
        /\ \E id \in FilledPartialExits(positions[p]) :
              /\ orders[id].qty > 0
              /\ positions[p].RemainingQty = positions[p].Quantity - orders[id].qty

\* ------------------------------------------------------------- C39
\* C39: when a close has marked a position CLOSED and the broker holds its
\* entry order filled for a positive quantity, the engine has submitted an
\* exit order or a protective order for the position; a close of an ACTIVE
\* or PARTIAL position whose exit order the broker refuses is left aside.
C39_NoUnprotectedEntry ==
    \A p \in DOMAIN positions :
        \A r \in CloseOutcomes(positions[p]) :
            LET w == CloseManagedPosition(World(p), r)
                e == positions[p].EntryOrderID
            IN  (/\ w.pos.Status = "CLOSED"
                 /\ e \in 1..Len(w.orders)
                 /\ w.orders[e].status = "filled"
                 /\ w.orders[e].qty > 0
                 /\ r.placeExit \/ positions[p].Status \notin {"ACTIVE", "PARTIAL"})
                    => \E i \in 1..Len(w.orders) :
                          /\ w.orders[i].pos = p
                          /\ w.orders[i].role \in Protective \cup {"exit"}

\* ------------------------------------------------------------- C40
\* The turn of a PENDING position in which GetOrder succeeds and reports the
\* entry order filled.
checkEntryOrderAnswered ==
    /\ inflight = <<>>
    /\ monitor # "returned"
    /\ \E p \in DOMAIN positions :
          /\ positions[p].Status = "PENDING"
          /\ \E r \in PassOutcomes(positions[p]) :
                /\ positions[p].EntryOrderID \in r.got
                /\ Leaves(p, checkPosition(World(p), r))
    /\ UNCHANGED inflight

\* The engine with a ticker that keeps firing and a broker whose GetOrder
\* does not fail for ever.
AnsweredSpec == FairSpec /\ WF_vars(checkEntryOrderAnswered)

\* C40: a PENDING position whose entry order the broker has filled is
\* eventually ACTIVE with the entry price the broker reports as the average
\* of the fill, or has been closed by hand.
C40_EventuallyActive ==
    \A p \in PositionIDs :
        (/\ p \in DOMAIN positions
         /\ positions[p].Status = "PENDING"
         /\ positions[p].EntryOrderID \in FilledOf(positions[p]))
            ~> (/\ p \in DOMAIN positions
                /\ \/ positions[p].Status = "CLOSED"
                   \/ /\ positions[p].Status = "ACTIVE"
                      /\ positions[p].EntryPrice
                            = orders[positions[p].EntryOrderID].avg)

====
